---- MODULE Spec2Model ----
(***************************************************************************)
(* Model of app.py: the Streamlit script that loads a YOLO detector, takes *)
(* an uploaded image or video, runs the detector and presents the result.  *)
(* One script run (a "processing cycle") is the sequence of statements of  *)
(* app.py from the sidebar widgets to the end of the selected branch; the  *)
(* process keeps the st.cache_resource cache and the filesystem between    *)
(* runs.                                                                   *)
(***************************************************************************)
EXTENDS Integers, Sequences, FiniteSets, TLC

\* ------------------------------------------------------------ bounds
MaxCycles == 3      \* script runs per behaviour
MaxLen == 3         \* boxes of one image result
MaxDirLen == 2      \* entries of the detector's output directory

\* ------------------------------------------------------------ values
None == "None"

\* values of the model-path text input: two loadable weight files, one not
GoodPaths == {"best.pt", "other.pt"}
Paths == GoodPaths \cup {"missing.pt"}

\* YOLO(model_path) succeeds exactly for a readable weights file
Loadable(p) == p \in GoodPaths

\* slider values (0.1 .. 1.0 step 0.05), in hundredths; the detector's result
\* is left open for any value, so the default is the one value drawn
Confs == {40}

Modes == {"Image", "Video"}

\* class ids of a box and the names table of each detector (model.names)
ClassIds == {0, 1}
names(m) == IF m = "best.pt" THEN <<"apple", "banana">>
                             ELSE <<"banana", "orange">>

SeqsUpTo(S, n) == UNION {[1..k -> S] : k \in 0..n}

\* results[0].boxes : the class id of every box, in order
BoxLists == SeqsUpTo(ClassIds, MaxLen)

\* the file uploader holds no file
NoUpload == <<>>

\* names of uploaded images, split at '.'
ImageNames == {<<"pic", "png">>}

\* names of uploaded videos, split at '.', as name.split('.') returns them
VideoNames == {<<"my", "trip", "mov">>}

\* file names of the detector's output directory, as character sequences
f_mp4 == <<"a", ".", "m", "p", "4">>
f_avi == <<"b", ".", "a", "v", "i">>
f_mov == <<"c", ".", "m", "o", "v">>
f_mkv == <<"d", ".", "m", "k", "v">>
f_jpg == <<"e", ".", "m", "p", "4", ".", "j", "p", "g">>
f_dir == <<"l", "a", "b", "e", "l", "s">>
FileNames == {f_mp4, f_avi, f_mov, f_mkv, f_jpg, f_dir}

\* os.listdir: distinct entries in an arbitrary order
Listings == {d \in SeqsUpTo(FileNames, MaxDirLen) :
                \A i, j \in DOMAIN d : i # j => d[i] # d[j]}

\* the suffixes tested at line 205
VideoSuffixes == {<<".", "m", "p", "4">>, <<".", "a", "v", "i">>,
                  <<".", "m", "o", "v">>, <<".", "m", "k", "v">>}

\* a test that knows the .mp4 suffix only
endswith_mp4(f, sufs) ==
    /\ Len(f) >= 4
    /\ SubSeq(f, Len(f) - 3, Len(f)) = <<".", "m", "p", "4">>

\* str.endswith with a tuple of suffixes
endswith(f, sufs) ==
    \E s \in sufs : /\ Len(f) >= Len(s)
                    /\ SubSeq(f, Len(f) - Len(s) + 1, Len(f)) = s

\* list comprehension with a condition: keeps the order
RECURSIVE Filter(_, _)
Filter(s, sufs) ==
    IF s = <<>> THEN <<>>
    ELSE IF endswith(Head(s), sufs) THEN <<Head(s)>> \o Filter(Tail(s), sufs)
         ELSE Filter(Tail(s), sufs)

\* a count that only tells presence from absence
count_presence(s, x) == IF \E i \in DOMAIN s : s[i] = x THEN 1 ELSE 0

\* list.count
RECURSIVE count(_, _)
count(s, x) ==
    IF s = <<>> THEN 0
    ELSE (IF Head(s) = x THEN 1 ELSE 0) + count(Tail(s), x)

\* set(labels)
set(s) == {s[i] : i \in DOMAIN s}

\* line 148: [model.names[int(box.cls)] for box in results[0].boxes]
Labels(m, boxes) == [i \in DOMAIN boxes |-> names(m)[boxes[i] + 1]]

\* a row of one column whatever the dict
columns_one(d) == 1

\* line 158: st.columns(Cardinality(DOMAIN counts)) makes one column per entry
columns(d) == Cardinality(DOMAIN d)

EmptyCounts == [label \in {} |-> 0]

\* no image run remembered (an empty list of labels never gets a summary)
NoRef == [conf |-> 0, labels |-> <<>>, counts |-> EmptyCounts]

\* no temporary file, no output file
NoFile == 0
NoPath == <<>>

\* ------------------------------------------------------------ state
VARIABLES
    pc,             \* position of the script run
    cycle,          \* number of script runs started
    model_path,     \* sidebar text input (line 75)
    conf,           \* sidebar slider (line 81)
    mode,           \* sidebar radio (line 94)
    uploaded,       \* the file uploader's value in this run (lines 119, 176)
    cache,          \* st.cache_resource: stored detectors by key
    built,          \* detectors constructed so far, per path (calls of YOLO that returned)
    model,          \* the detector of this run (line 112)
    disk,           \* temporary input files existing on disk
    tmp,            \* img_path / video_path of this run
    ext,            \* suffix of the video temporary file (line 182)
    boxes,          \* results[0].boxes of this run
    pred_dir,       \* listing of results[0].save_dir
    pred_videos,    \* line 203
    output_path,    \* line 209
    labels,         \* line 148
    counts,         \* line 151
    cols,           \* st.columns(Cardinality(DOMAIN counts))
    cards,          \* the count cards rendered by this run, in order
    log,            \* what this run did and rendered, in order
    ref             \* one earlier image run remembered: its threshold, labels
                    \* and counts

vars == <<pc, cycle, model_path, conf, mode, uploaded, cache, built, model, disk, tmp,
          ext, boxes, pred_dir, pred_videos, output_path, labels, counts,
          cols, cards, log, ref>>

media == <<tmp, ext, boxes, pred_dir, pred_videos, output_path, labels,
           cols, cards>>

widgets == <<cycle, model_path, conf, mode, uploaded>>

Emit(e) == log' = Append(log, e)

\* a summary kept from an earlier run and added to
Aggregation_stale(L) ==
    [label \in set(L) |->
        count(L, label) +
            (IF label \in DOMAIN ref.counts THEN ref.counts[label] ELSE 0)]

\* line 151: {label: labels.count(label) for label in set(labels)}
Aggregation(L) == [label \in set(L) |-> count(L, label)]

Init ==
    /\ pc = "idle"
    /\ cycle = 0
    /\ model_path = "best.pt"
    /\ conf = 40
    /\ mode = "Image"
    /\ uploaded = NoUpload
    /\ cache = <<>>
    /\ built = [p \in Paths |-> 0]
    /\ model = None
    /\ disk = {}
    /\ tmp = NoFile
    /\ ext = None
    /\ boxes = <<>>
    /\ pred_dir = <<>>
    /\ pred_videos = <<>>
    /\ output_path = NoPath
    /\ labels = <<>>
    /\ counts = EmptyCounts
    /\ cols = 0
    /\ cards = <<>>
    /\ log = <<>>
    /\ ref = NoRef

\* ------------------------------------------------------------ a script run
\* A widget interaction (or a new session) reruns the script from the top
\* with the widgets' current values; the names bound by the previous run are
\* gone. The run that ends here may be the one remembered in ref.
Rerun ==
    /\ pc \in {"idle", "done", "stopped", "failed"}
    /\ cycle < MaxCycles
    /\ cycle' = cycle + 1
    /\ model_path' \in Paths
    /\ conf' \in Confs
    /\ mode' \in Modes
    /\ uploaded' \in {NoUpload} \cup (IF mode' = "Image" THEN ImageNames
                                                        ELSE VideoNames)
    /\ model' = None
    /\ tmp' = NoFile
    /\ ext' = None
    /\ boxes' = <<>>
    /\ pred_dir' = <<>>
    /\ pred_videos' = <<>>
    /\ output_path' = NoPath
    /\ labels' = <<>>
    /\ counts' = EmptyCounts
    /\ cols' = 0
    /\ cards' = <<>>
    /\ log' = <<>>
    /\ ref' \in IF counts = EmptyCounts THEN {ref}
               ELSE {ref, [conf |-> conf, labels |-> labels, counts |-> counts]}
    /\ pc' = "load"
    /\ UNCHANGED <<cache, built, disk>>

\* the key under which st.cache_resource stores the result of load_model():
\* the function and its arguments, and load_model takes none (lines 107-109)
cache_key == "load_model"

\* lines 107-112, cached call: the stored detector is returned
LoadModelCached ==
    /\ pc = "load"
    /\ cache_key \in DOMAIN cache
    /\ model' = cache[cache_key]
    /\ pc' = "branch"
    /\ UNCHANGED <<widgets, cache, built, disk, media, counts, log, ref>>

\* lines 107-112, first call: YOLO(model_path) returns and is stored
LoadModelBuild ==
    /\ pc = "load"
    /\ cache_key \notin DOMAIN cache
    /\ Loadable(model_path)
    /\ cache' = [k \in DOMAIN cache \cup {cache_key} |->
                    IF k = cache_key THEN model_path ELSE cache[k]]
    /\ built' = [built EXCEPT ![model_path] = @ + 1]
    /\ model' = model_path
    /\ pc' = "branch"
    /\ UNCHANGED <<widgets, disk, media, counts, log, ref>>

\* lines 111-115: YOLO(model_path) raises; nothing is stored; st.error, st.stop
LoadModelError ==
    /\ pc = "load"
    /\ cache_key \notin DOMAIN cache
    /\ ~Loadable(model_path)
    /\ Emit("model_error")
    /\ pc' = "stopped"
    /\ UNCHANGED <<widgets, cache, built, model, disk, media, counts, ref>>

config == <<widgets, cache, built, model>>

\* ------------------------------------------------------------ image branch
\* lines 118-124 with no file in the uploader: the run ends
ImageNoUpload ==
    /\ pc = "branch"
    /\ mode = "Image"
    /\ uploaded = NoUpload
    /\ pc' = "done"
    /\ UNCHANGED <<config, disk, media, counts, log, ref>>

\* a temporary file that is deleted when its with-block closes it
ImageUpload_autodelete ==
    /\ pc = "branch"
    /\ mode = "Image"
    /\ uploaded # NoUpload
    /\ tmp' = cycle
    /\ ext' = "jpg"
    /\ disk' = disk \ {cycle}
    /\ log' = log \o <<"tmp_create", "upload_read", "unlink">>
    /\ pc' = "i_original"
    /\ UNCHANGED <<config, boxes, pred_dir, pred_videos, output_path, labels,
                   cols, cards, counts, ref>>

\* lines 124-127: the upload is read and written to a new temporary file
ImageUpload ==
    /\ pc = "branch"
    /\ mode = "Image"
    /\ uploaded # NoUpload
    /\ tmp' = cycle
    /\ ext' = "jpg"
    /\ disk' = disk \cup {cycle}
    /\ log' = log \o <<"tmp_create", "upload_read">>
    /\ pc' = "i_original"
    /\ UNCHANGED <<config, boxes, pred_dir, pred_videos, output_path, labels,
                   cols, cards, counts, ref>>

\* lines 130-132: the original image is shown; Image.open raises on a file
\* that is no image
ImageOriginal ==
    /\ pc = "i_original"
    /\ \/ Emit("original") /\ pc' = "i_info"
       \/ Emit("exception") /\ pc' = "failed"
    /\ UNCHANGED <<config, disk, media, counts, ref>>

\* line 134
ImageInfo ==
    /\ pc = "i_info"
    /\ Emit("processing")
    /\ pc' = "i_predict"
    /\ UNCHANGED <<config, disk, media, counts, ref>>

\* line 137: one blocking call of the detector; it returns the boxes of the
\* one frame, or raises (not caught)
ImagePredict ==
    /\ pc = "i_predict"
    /\ \/ /\ boxes' \in BoxLists
          /\ log' = log \o <<"predict", "returned">>
          /\ pc' = "i_annotated"
       \/ /\ boxes' = boxes
          /\ log' = log \o <<"predict", "exception">>
          /\ pc' = "failed"
    /\ UNCHANGED <<config, disk, tmp, ext, pred_dir, pred_videos, output_path,
                   labels, cols, cards, counts, ref>>

\* lines 140-145: the annotated image is shown
ImageAnnotated ==
    /\ pc = "i_annotated"
    /\ Emit("annotated")
    /\ pc' = "i_labels"
    /\ UNCHANGED <<config, disk, media, counts, ref>>

\* a summary only for two labels or more
ImageLabels_two ==
    /\ pc = "i_labels"
    /\ labels' = Labels(model, boxes)
    /\ IF Len(labels') > 1
       THEN /\ counts' = Aggregation(labels')
            /\ cols' = columns(counts')
            /\ Emit("summary")
            /\ pc' = "i_cards"
       ELSE /\ Emit("no_detections")
            /\ pc' = "i_unlink"
            /\ UNCHANGED <<counts, cols>>
    /\ UNCHANGED <<config, disk, tmp, ext, boxes, pred_dir, pred_videos,
                   output_path, cards, ref>>

\* lines 148-158 and 169-170: the labels, then the summary and its columns,
\* or the warning
ImageLabels ==
    /\ pc = "i_labels"
    /\ labels' = Labels(model, boxes)
    /\ IF labels' # <<>>
       THEN /\ counts' = Aggregation(labels')
            /\ cols' = columns(counts')
            /\ Emit("summary")
            /\ pc' = "i_cards"
       ELSE /\ Emit("no_detections")
            /\ pc' = "i_unlink"
            /\ UNCHANGED <<counts, cols>>
    /\ UNCHANGED <<config, disk, tmp, ext, boxes, pred_dir, pred_videos,
                   output_path, cards, ref>>

\* the labels that already have a card
carded == {cards[i][1] : i \in DOMAIN cards}

\* lines 159-168: one iteration of zip(cols, counts.items()), which ends
\* with the shorter of the two; a dict built from a set has no fixed order
ImageCard ==
    /\ pc = "i_cards"
    /\ Len(cards) < cols
    /\ Len(cards) < Cardinality(DOMAIN counts)
    /\ \E fruit \in DOMAIN counts \ carded :
           cards' = Append(cards, <<fruit, counts[fruit]>>)
    /\ Emit("card")
    /\ UNCHANGED <<pc, config, disk, tmp, ext, boxes, pred_dir, pred_videos,
                   output_path, labels, cols, counts, ref>>

\* the loop of line 159 is exhausted
ImageCardsEnd ==
    /\ pc = "i_cards"
    /\ ~(Len(cards) < cols /\ Len(cards) < Cardinality(DOMAIN counts))
    /\ pc' = "i_unlink"
    /\ UNCHANGED <<config, disk, media, counts, log, ref>>

\* line 172
ImageUnlink ==
    /\ pc = "i_unlink"
    /\ disk' = disk \ {tmp}
    /\ Emit("unlink")
    /\ pc' = "done"
    /\ UNCHANGED <<config, media, counts, ref>>

\* ------------------------------------------------------------ video branch
\* lines 175-181 with no file in the uploader: the run ends
VideoNoUpload ==
    /\ pc = "branch"
    /\ mode = "Video"
    /\ uploaded = NoUpload
    /\ pc' = "done"
    /\ UNCHANGED <<config, disk, media, counts, log, ref>>

\* a video branch that does not look at the mode
VideoUpload_anymode ==
    /\ pc = "branch"
    /\ uploaded # NoUpload
    /\ ext' = uploaded[Len(uploaded)]
    /\ tmp' = cycle
    /\ disk' = disk \cup {cycle}
    /\ log' = log \o <<"tmp_create", "upload_read">>
    /\ pc' = "v_original"
    /\ UNCHANGED <<config, boxes, pred_dir, pred_videos, output_path, labels,
                   cols, cards, counts, ref>>

\* lines 181-185: the suffix is the part of the name after its last '.'
VideoUpload ==
    /\ pc = "branch"
    /\ mode = "Video"
    /\ uploaded # NoUpload
    /\ ext' = uploaded[Len(uploaded)]
    /\ tmp' = cycle
    /\ disk' = disk \cup {cycle}
    /\ log' = log \o <<"tmp_create", "upload_read">>
    /\ pc' = "v_original"
    /\ UNCHANGED <<config, boxes, pred_dir, pred_videos, output_path, labels,
                   cols, cards, counts, ref>>

\* lines 187-188
VideoOriginal ==
    /\ pc = "v_original"
    /\ Emit("original")
    /\ pc' = "v_info"
    /\ UNCHANGED <<config, disk, media, counts, ref>>

\* line 190
VideoInfo ==
    /\ pc = "v_info"
    /\ Emit("processing")
    /\ pc' = "v_predict"
    /\ UNCHANGED <<config, disk, media, counts, ref>>

\* lines 192-202: one blocking call of the detector over the whole file; it
\* leaves its output in a directory of its choice, or raises (not caught)
VideoPredict ==
    /\ pc = "v_predict"
    /\ \/ /\ pred_dir' \in Listings
          /\ log' = log \o <<"predict", "returned">>
          /\ pc' = "v_scan"
       \/ /\ pred_dir' = pred_dir
          /\ log' = log \o <<"predict", "exception">>
          /\ pc' = "failed"
    /\ UNCHANGED <<config, disk, tmp, ext, boxes, pred_videos, output_path,
                   labels, cols, cards, counts, ref>>

\* lines 203-212 and 221-222: the directory is scanned; the first match is
\* played back, or the warning is shown and the run ends
VideoScan ==
    /\ pc = "v_scan"
    /\ pred_videos' = Filter(pred_dir, VideoSuffixes)
    /\ IF pred_videos' # <<>>
       THEN /\ output_path' = pred_videos'[1]
            /\ log' = log \o <<"scan", "annotated">>
            /\ pc' = "v_download"
       ELSE /\ output_path' = output_path
            /\ log' = log \o <<"scan", "not_found">>
            /\ pc' = "done"
    /\ UNCHANGED <<config, disk, tmp, ext, boxes, pred_dir, labels, cols,
                   cards, counts, ref>>

\* lines 214-220: the output file is opened and offered for download; the
\* script ends here, the temporary input file is left in place
VideoDownload ==
    /\ pc = "v_download"
    /\ log' = log \o <<"open_output", "download">>
    /\ pc' = "done"
    /\ UNCHANGED <<config, disk, media, counts, ref>>

\* ------------------------------------------------------------ properties
Has(e) == \E i \in DOMAIN log : log[i] = e

Times(e) == Cardinality({i \in DOMAIN log : log[i] = e})

Occurrences(L, l) == Cardinality({i \in DOMAIN L : L[i] = l})

\* C1: the summary built by the image branch has exactly the distinct labels
\* of the detection list as keys, each with its number of occurrences in the
\* list, which is at least 1.
C1_SummaryCountsOccurrences ==
    (mode = "Image" /\ Has("summary")) =>
        /\ labels = Labels(model, boxes)
        /\ \A l \in DOMAIN counts : \E i \in DOMAIN labels : labels[i] = l
        /\ \A i \in DOMAIN labels : labels[i] \in DOMAIN counts
        /\ \A l \in DOMAIN counts :
               counts[l] = Occurrences(labels, l) /\ counts[l] >= 1

C1_Witness ==
    /\ mode = "Image"
    /\ Has("summary")
    /\ Len(labels) = 3
    /\ Cardinality(DOMAIN counts) = 2
    /\ \E l \in DOMAIN counts : counts[l] = 2

\* C2: a run whose model_path cannot be loaded reports the model-load error
\* and stops before any media processing, also after runs with a loadable
\* path.
C2_InvalidPathHalts ==
    (pc \notin {"idle", "load"} /\ ~Loadable(model_path)) =>
        /\ pc = "stopped"
        /\ log = <<"model_error">>
        /\ tmp = NoFile

\* C3: a detector is constructed at most once per model path, and the
\* detector a run uses is the one constructed from that run's model_path.
C3_MemoizedByPath ==
    /\ \A p \in Paths : built[p] <= 1
    /\ model # None => model = model_path

C5_NoticeOrCards ==
    /\ ~(Has("no_detections") /\ (Has("card") \/ Has("summary")))
    /\ (mode = "Image" /\ pc = "done" /\ Has("returned")) =>
          IF boxes = <<>>
          THEN /\ Times("no_detections") = 1
               /\ ~Has("card") /\ cards = <<>>
               /\ ~Has("summary") /\ cols = 0
          ELSE /\ Has("card") /\ cards # <<>>
               /\ ~Has("no_detections")

C5_Witness ==
    /\ mode = "Image"
    /\ pc = "done"
    /\ boxes = <<>>
    /\ Has("returned")
    /\ Has("no_detections")

\* a file name with one of the four video extensions
Recognized(f) ==
    /\ Len(f) >= 4
    /\ f[Len(f) - 3] = "."
    /\ <<f[Len(f) - 2], f[Len(f) - 1], f[Len(f)]>> \in
          {<<"m", "p", "4">>, <<"a", "v", "i">>, <<"m", "o", "v">>,
           <<"m", "k", "v">>}

\* C6: a video run whose output directory has no file with a video extension
\* shows the "not found" warning and neither opens nor offers an output file;
\* otherwise it plays back and offers a file of that directory with a video
\* extension and shows no warning. Either way the run ends normally and the
\* script can run again.
C6_MissingOutputWarning ==
    (mode = "Video" /\ Has("scan")) =>
        /\ pc \in {"v_download", "done"}
        /\ (pc = "done" /\ cycle < MaxCycles) => ENABLED Rerun
        /\ IF \A i \in DOMAIN pred_dir : ~Recognized(pred_dir[i])
           THEN /\ pc = "done"
                /\ Times("not_found") = 1
                /\ ~Has("open_output") /\ ~Has("download")
                /\ ~Has("annotated")
                /\ output_path = NoPath
           ELSE /\ ~Has("not_found")
                /\ Has("annotated")
                /\ \E i \in DOMAIN pred_dir : pred_dir[i] = output_path
                /\ Recognized(output_path)
                /\ pc = "done" => (Has("open_output") /\ Times("download") = 1)

C6_Witness ==
    /\ mode = "Video"
    /\ pc = "done"
    /\ Len(pred_dir) = 2
    /\ Has("not_found")

\* C7: an image run shows one card per entry of the summary, with the
\* entry's label and count, and no other card; the detections apple, apple,
\* banana give the two cards (apple, 2) and (banana, 1).
C7_OneCardPerEntry ==
    /\ Times("card") = Len(cards)
    /\ \A i \in DOMAIN cards :
          /\ Has("summary")
          /\ cards[i][1] \in DOMAIN counts
          /\ cards[i][2] = counts[cards[i][1]]
          /\ \A j \in DOMAIN cards : cards[j][1] = cards[i][1] => j = i
    /\ (mode = "Image" /\ Has("summary") /\ pc \in {"i_unlink", "done"}) =>
          /\ Len(cards) = Cardinality(DOMAIN counts)
          /\ \A l \in DOMAIN counts :
                \E i \in DOMAIN cards : cards[i] = <<l, counts[l]>>
          /\ (Occurrences(labels, "apple") = 2 /\ Occurrences(labels, "banana") = 1
              /\ Len(labels) = 3) =>
                {cards[i] : i \in DOMAIN cards} = {<<"apple", 2>>, <<"banana", 1>>}

C7_Witness ==
    /\ mode = "Image"
    /\ pc = "done"
    /\ labels = <<"apple", "banana", "apple">>
    /\ Len(cards) = 2

\* the place of an event in a run
Rank ==
    [tmp_create |-> 0, upload_read |-> 0, original |-> 1, processing |-> 2,
     predict |-> 3, returned |-> 4, exception |-> 4, scan |-> 5,
     annotated |-> 6, summary |-> 7, no_detections |-> 7, not_found |-> 7,
     open_output |-> 7, card |-> 8, download |-> 8, unlink |-> 9,
     model_error |-> 10]

C9_SameListSameSummary ==
    (mode = "Image" /\ Has("summary") /\ ref.labels = labels /\ ref.conf = conf)
        => counts = ref.counts

C9_Witness ==
    /\ mode = "Image"
    /\ cycle = MaxCycles
    /\ Has("summary")
    /\ ref.labels = labels
    /\ ref.conf = conf
    /\ Len(labels) = 3
    /\ Cardinality(DOMAIN counts) = 2

\* C10: a run takes one branch only: an Image run makes no video temporary
\* file, scans no directory and offers no download, a Video run builds no
\* summary and shows no card. The detector is called at most once per run,
\* and only with a loaded model and an upload; without an upload no
\* temporary file is made and the detector is not called.
C10_OneBranchOnePredict ==
    /\ mode = "Image" =>
          /\ ext \in {None, "jpg"}
          /\ ~Has("scan") /\ ~Has("open_output") /\ ~Has("download")
          /\ ~Has("not_found")
          /\ pred_dir = <<>> /\ pred_videos = <<>> /\ output_path = NoPath
    /\ mode = "Video" =>
          /\ ~Has("summary") /\ ~Has("card") /\ ~Has("no_detections")
          /\ labels = <<>> /\ counts = EmptyCounts
          /\ cards = <<>> /\ cols = 0
          /\ ext # "jpg"
    /\ Times("predict") <= 1
    /\ Has("predict") =>
          (model # None /\ uploaded # NoUpload /\ tmp # NoFile)
    /\ uploaded = NoUpload =>
          (tmp = NoFile /\ ~Has("tmp_create") /\ ~Has("predict")
           /\ cycle \notin disk)

C10_Witness ==
    /\ mode = "Video"
    /\ pc = "done"
    /\ Has("download")
    /\ Times("predict") = 1
    /\ ref # NoRef

Next ==
    \/ Rerun
    \/ LoadModelCached
    \/ LoadModelBuild
    \/ LoadModelError
    \/ ImageNoUpload
    \/ ImageUpload
    \/ ImageOriginal
    \/ ImageInfo
    \/ ImagePredict
    \/ ImageAnnotated
    \/ ImageLabels
    \/ ImageCard
    \/ ImageCardsEnd
    \/ ImageUnlink
    \/ VideoNoUpload
    \/ VideoUpload
    \/ VideoOriginal
    \/ VideoInfo
    \/ VideoPredict
    \/ VideoScan
    \/ VideoDownload

Spec == Init /\ [][Next]_vars
====
